---------------------------- MODULE Spec2Model ----------------------------
(***************************************************************************)
(* The pygame documentation indexer (docs/reST/ext/indexer.py): the        *)
(* persistent table env.pyg_descinfo_tbl, the CollectInfo visitor that     *)
(* fills it while a doctree is walked, the env-purge-doc handler that      *)
(* removes a document's entries, and the tour that flattens an entry and   *)
(* its descendants for the header writer.                                  *)
(*                                                                         *)
(* Python strings that the code takes apart (identifiers, names, texts)    *)
(* are sequences of tokens: "module-pygame.key" is <<"module-",            *)
(* "pygame.key">>, so that startswith and slicing are computed and text    *)
(* concatenation is \o.  A doctree is a nested record; a node is named by  *)
(* its path, the sequence of child indexes from the document node.         *)
(***************************************************************************)
EXTENDS Naturals, Sequences, FiniteSets, TLC

VARIABLES
    corpus,            \* the documents of the project being built
    has_tbl,           \* whether env has the attribute pyg_descinfo_tbl
    pyg_descinfo_tbl,  \* env.pyg_descinfo_tbl: registry key -> entry
    doctree,           \* the parsed tree of each document that has been read
    to_read,           \* documents purged (env-purge-doc) and not read since
    walk,              \* the walkabout in progress: document, node, phase
    summary_stack,     \* CollectInfo.summary_stack
    sig_stack,         \* CollectInfo.sig_stack
    desc_stack,        \* CollectInfo.desc_stack (lists of desc nodes)
    hdr,               \* what the last html-page-context call produced
    purged,            \* the keys the last purge of each document removed
    alone              \* the table the walk in progress fills from an empty one

vars == <<corpus, has_tbl, pyg_descinfo_tbl, doctree, to_read, walk,
          summary_stack, sig_stack, desc_stack, hdr, purged, alone>>

---------------------------------------------------------------------------
(* Bounds of the model.                                                    *)

\* the most descriptions a generated section holds
MaxDescs == 1

\* the most inline nodes a generated description holds
MaxInl == 2

---------------------------------------------------------------------------
(* Strings and sequences.                                                  *)

MODULE_ID_PREFIX == "module-"

\* str.startswith(MODULE_ID_PREFIX) on a token sequence
startswith_module(s) == Len(s) >= 1 /\ s[1] = MODULE_ID_PREFIX

\* s[len(MODULE_ID_PREFIX):] for a string that starts with the prefix
strip_module(s) == Tail(s)

Front(s) == SubSeq(s, 1, Len(s) - 1)

RECURSIVE Concat(_)
Concat(ss) == IF ss = <<>> THEN <<>> ELSE Head(ss) \o Concat(Tail(ss))

RECURSIVE SeqsUpTo(_, _)
SeqsUpTo(S, n) ==
    IF n = 0 THEN {<<>>}
    ELSE LET shorter == SeqsUpTo(S, n - 1)
         IN  shorter \cup {Append(s, x) : s \in {t \in shorter : Len(t) = n - 1}, x \in S}

---------------------------------------------------------------------------
(* Doctree nodes.                                                          *)

NoAttr == "<absent>"

Node(kind) ==
    [kind |-> kind, names |-> <<>>, ids |-> <<>>, desctype |-> NoAttr,
     classes |-> {}, text |-> <<>>, source |-> <<>>, kids |-> <<>>]

NoTree == Node("none")

Text(t) == [Node("text") EXCEPT !.text = t]

Other(ids, kids) == [Node("other") EXCEPT !.ids = ids, !.kids = kids]

Inline(classes, kids) == [Node("inline") EXCEPT !.classes = classes, !.kids = kids]

\* a desc as the Python domain builds it: desc_signature, then desc_content
Desc(desctype, id, content) ==
    [Node("desc") EXCEPT !.desctype = desctype,
                         !.kids = <<Other(<<id>>, <<>>), Other(<<>>, content)>>]

Section(names, ids, kids) ==
    [Node("section") EXCEPT !.names = names, !.ids = ids, !.kids = kids]

Document(source, kids) ==
    [Node("document") EXCEPT !.source = source, !.kids = kids]

RECURSIVE NodeAt(_, _)
NodeAt(tree, path) ==
    IF path = <<>> THEN tree ELSE NodeAt(tree.kids[Head(path)], Tail(path))

\* Node.astext(): a Text is its string, an element the joined text of its children
RECURSIVE astext(_)
astext(node) ==
    IF node.kind = "text" THEN node.text
    ELSE Concat([i \in 1..Len(node.kids) |-> astext(node.kids[i])])

RECURSIVE Paths(_)
Paths(node) ==
    {<<>>} \cup UNION {{<<i>> \o p : p \in Paths(node.kids[i])} : i \in 1..Len(node.kids)}

IsPrefix(p, q) == Len(p) <= Len(q) /\ SubSeq(q, 1, Len(p)) = p

---------------------------------------------------------------------------
(* Identifier resolution.  A result is [err, val]: err is "" or the name   *)
(* of the exception raised.                                                *)

Ok(v) == [err |-> "", val |-> v]

Raise(e) == [err |-> e, val |-> <<>>]

\* get_ids: a section's own ids, a desc's first child's ids
get_ids(tree, path) ==
    LET node == NodeAt(tree, path)
    IN  IF node.kind = "section" THEN Ok(node.ids)
        ELSE IF node.kind = "desc"
             THEN IF node.kids = <<>> THEN Raise("GetError") ELSE Ok(node.kids[1].ids)
             ELSE Raise("TypeError")

get_refid(tree, path) ==
    LET ids == get_ids(tree, path)
    IN  IF ids.err # "" THEN ids
        ELSE IF ids.val = <<>> THEN Raise("GetError") ELSE Ok(ids.val[1])

get_descname(desc) ==
    IF desc.kids = <<>> THEN Raise("GetError")
    ELSE IF desc.kids[1].ids = <<>> THEN Raise("GetError")
         ELSE Ok(desc.kids[1].ids[1])

get_sectionname(section) ==
    IF section.names = <<>> THEN Raise("GetError") ELSE Ok(section.names[1])

get_fullname(node) ==
    IF node.kind = "section" THEN get_sectionname(node)
    ELSE IF node.kind = "desc" THEN get_descname(node)
         ELSE Raise("TypeError")

\* the key an identifier is stored and looked up under
registry_key(refid) ==
    IF startswith_module(refid) THEN strip_module(refid) ELSE refid

---------------------------------------------------------------------------
(* The registry.                                                           *)

EmptyTbl == [k \in {} |-> NoTree]

NoEntry ==
    [fullname |-> <<>>, desctype |-> NoAttr, summary |-> <<>>, signatures |-> <<>>,
     children |-> <<>>, refid |-> <<>>, docname |-> NoAttr]

Put(tbl, key, entry) ==
    [k \in DOMAIN tbl \cup {key} |-> IF k = key THEN entry ELSE tbl[k]]

Without(tbl, keys) == [k \in DOMAIN tbl \ keys |-> tbl[k]]

\* get_descinfo_refid with the KeyError of the lookup left to escape
get_descinfo_refid_uncaught(refid, tbl) ==
    IF registry_key(refid) \in DOMAIN tbl
    THEN [err |-> "", val |-> tbl[registry_key(refid)]]
    ELSE [err |-> "KeyError", val |-> NoEntry]

\* get_descinfo_refid: the entry of an identifier, GetError when there is none
get_descinfo_refid(refid, tbl) ==
    LET key == registry_key(refid)
    IN  IF key \in DOMAIN tbl
        THEN [err |-> "", val |-> tbl[key]]
        ELSE [err |-> "GetError", val |-> NoEntry]

get_descinfo(tree, path, tbl) ==
    LET refid == get_refid(tree, path)
    IN  IF refid.err # "" THEN [err |-> refid.err, val |-> NoEntry]
        ELSE get_descinfo_refid(refid.val, tbl)

\* CollectInfo._add_descinfo_entry; result [err, tbl]
add_descinfo_entry(tree, path, entry, tbl) ==
    LET refid == get_refid(tree, path)
    IN  IF refid.err # "" THEN [err |-> refid.err, tbl |-> tbl]
        ELSE [err |-> "", tbl |-> Put(tbl, registry_key(refid.val), entry)]

\* the desctype attribute with a default, node.get("desctype", default)
get_desctype(node, default) ==
    IF node.desctype = NoAttr THEN default ELSE node.desctype

\* [get_refid(n) for n in child_descs]; every n was registered when it was left
child_refids(tree, child_descs) ==
    [i \in 1..Len(child_descs) |-> get_refid(tree, child_descs[i]).val]

\* CollectInfo._add_descinfo; result [err, tbl]
add_descinfo(tree, path, summary, sigs, child_descs, docname, tbl) ==
    LET node == NodeAt(tree, path)
        fullname == get_fullname(node)
        refid == get_refid(tree, path)
    IN  IF fullname.err # "" THEN [err |-> fullname.err, tbl |-> tbl]
        ELSE IF refid.err # "" THEN [err |-> refid.err, tbl |-> tbl]
        ELSE add_descinfo_entry(tree, path,
                 [fullname |-> fullname.val,
                  desctype |-> get_desctype(node, "module"),
                  summary |-> summary,
                  signatures |-> sigs,
                  children |-> child_refids(tree, child_descs),
                  refid |-> refid.val,
                  docname |-> docname],
                 tbl)

\* to_remove that keeps the entries stored under a key other than their refid
to_remove_own_refid(tbl, docname) ==
    {k \in DOMAIN tbl : tbl[k].docname = docname /\ tbl[k].refid = k}

\* to_remove that forgets the test of the docname
to_remove_all(tbl, docname) == DOMAIN tbl

\* prep_document_info's to_remove
to_remove(tbl, docname) == {k \in DOMAIN tbl : tbl[k].docname = docname}

\* prep_document_info without its try / except
prep_document_info_no_except(has, tbl, docname) ==
    IF ~has THEN [err |-> "AttributeError", tbl |-> tbl]
    ELSE [err |-> "", tbl |-> Without(tbl, to_remove(tbl, docname))]

\* prep_document_info; result [err, tbl].  Without the attribute the
\* AttributeError is caught and nothing is done.
prep_document_info(has, tbl, docname) ==
    IF ~has THEN [err |-> "", tbl |-> tbl]
    ELSE [err |-> "", tbl |-> Without(tbl, to_remove(tbl, docname))]

---------------------------------------------------------------------------
(* Node.walkabout: where the walk goes next.  SkipNode leaves a node       *)
(* without its children and without its departure; SkipDeparture (every    *)
(* inline node) walks the children and leaves out the departure only.      *)

\* desctypes with the directive of another vocabulary let in
desctypes_and_describe ==
    {"data", "function", "exception", "class", "attribute", "method",
     "staticmethod", "classmethod", "describe"}

\* desctypes with one kind left out
desctypes_less_staticmethod ==
    {"data", "function", "exception", "class", "attribute", "method", "classmethod"}

desctypes ==
    {"data", "function", "exception", "class", "attribute", "method",
     "staticmethod", "classmethod"}

Visit(path) == [done |-> FALSE, path |-> path, phase |-> "visit"]

Depart(path) == [done |-> FALSE, path |-> path, phase |-> "depart"]

Finished == [done |-> TRUE, path |-> <<>>, phase |-> "depart"]

call_depart(node) == node.kind # "inline"

RECURSIVE After(_, _)
RECURSIVE Leave(_, _)
\* after a node is done with (departed or skipped): its next sibling, or its parent's end
After(tree, path) ==
    IF path = <<>> THEN Finished
    ELSE LET parent == Front(path)
             i == path[Len(path)]
         IN  IF i < Len(NodeAt(tree, parent).kids)
             THEN Visit(Append(parent, i + 1))
             ELSE Leave(tree, parent)

\* after the children of a node: its departure when it is called
Leave(tree, path) ==
    IF call_depart(NodeAt(tree, path)) THEN Depart(path) ELSE After(tree, path)

\* after a visit that raised nothing (or SkipDeparture): the children
Enter(tree, path) ==
    IF NodeAt(tree, path).kids # <<>> THEN Visit(Append(path, 1)) ELSE Leave(tree, path)

\* visit_document's test of the source path docs/reST/ref/<file>; os.path.split
\* takes the last component off
eligible(source) ==
    LET n == Len(source)
    IN  /\ n >= 1 /\ source[n] # ""
        /\ n >= 2 /\ source[n - 1] = "ref"
        /\ n >= 3 /\ source[n - 2] = "reST"
        /\ n >= 4 /\ source[n - 3] = "docs"

---------------------------------------------------------------------------
(* The tour (flatten).  A result is [err, items]: the entries handed to fn *)
(* in order, and the exception that ended the tour, if any.  A tour that   *)
(* is more calls deep than the table has keys is on a cycle of children    *)
(* and never returns: Python ends it with RecursionError.                  *)

\* the calls for refid in descinfo["children"]: tour_descinfo_refid(fn, refid, env)
\* still to make, each with the depth of recursion it is made at
calls(children, depth) ==
    [i \in 1..Len(children) |-> [refid |-> children[i], depth |-> depth]]

\* tour_descinfo_refid, the recursion unrolled: todo holds the pending calls,
\* first the one made next
RECURSIVE tour_descinfo_refid(_, _, _)
tour_descinfo_refid(todo, tbl, items) ==
    IF todo = <<>> THEN [err |-> "", items |-> items]
    ELSE IF Head(todo).depth > Cardinality(DOMAIN tbl)
         THEN [err |-> "RecursionError", items |-> items]
    ELSE IF Head(todo).refid \notin DOMAIN tbl
         THEN [err |-> "KeyError", items |-> items]
    ELSE tour_descinfo_refid(
             calls(tbl[Head(todo).refid].children, Head(todo).depth + 1) \o Tail(todo),
             tbl, Append(items, tbl[Head(todo).refid]))

\* tour_descinfo once get_descinfo has answered
tour_from(descinfo, tbl) ==
    IF descinfo.err = "GetError" THEN [err |-> "", items |-> <<>>]
    ELSE IF descinfo.err # "" THEN [err |-> descinfo.err, items |-> <<>>]
    ELSE tour_descinfo_refid(calls(descinfo.val.children, 1), tbl, <<descinfo.val>>)

tour_descinfo(tree, path, tbl) == tour_from(get_descinfo(tree, path, tbl), tbl)

\* writer's loop over the sections of the page: the tours made, one per
\* section, until one raises
RECURSIVE tour_sections(_, _, _, _)
tour_sections(tree, i, tbl, tours) ==
    IF i > Len(tree.kids) THEN tours
    ELSE IF tours # <<>> /\ tours[Len(tours)].err # "" THEN tours
    ELSE tour_sections(tree, i + 1, tbl,
             IF tree.kids[i].kind # "section" THEN tours
             ELSE Append(tours, [path |-> <<i>>] @@ tour_descinfo(tree, <<i>>, tbl)))

\* what writer leaves: the tours, the items collected, whether it raised and
\* whether it got to write the header
hdr_of(d, tours) ==
    LET items == Concat([i \in 1..Len(tours) |-> tours[i].items])
        err == IF tours = <<>> THEN "" ELSE tours[Len(tours)].err
    IN  [doc |-> d, tours |-> tours, items |-> items, err |-> err,
         written |-> (err = "" /\ items # <<>>)]

---------------------------------------------------------------------------
(* The documents of the model and the trees a parse of each can give.      *)

Summ(t) == Inline({"summaryline"}, <<Text(<<t>>)>>)

Sig(t) == Inline({"signature"}, <<Text(<<t>>)>>)

Para(kids) == Other(<<>>, kids)

RefSource(file) == <<"docs", "reST", "ref", file>>

\* the descriptions document "a" may hold
PoolA ==
    {Desc("function", <<"f">>, <<Sig("f() -> a"), Summ("f of a")>>),
     Desc("class", <<"C">>,
          <<Summ("class C"), Desc("method", <<"C.m">>, <<Sig("m()"), Summ("C.m")>>)>>)}

\* the descriptions document "b" may hold: "f" is documented in "a" too, and
\* one identifier carries the module marker
PoolB ==
    {Desc("function", <<"f">>, <<Sig("f() -> b"), Summ("f of b")>>),
     Desc("function", <<MODULE_ID_PREFIX, "x">>, <<Summ("x of b")>>)}

TreesA ==
    {Document(RefSource("a.rst"),
       <<Section(<<<<"a">>>>, <<<<MODULE_ID_PREFIX, "a">>>>, <<Para(<<Summ("module a")>>)>> \o ds)>>) :
        ds \in SeqsUpTo(PoolA, MaxDescs)}

TreesB ==
    {Document(RefSource("b.rst"), <<Section(<<<<"b">>>>, <<id>>, ds)>>) :
        id \in {<<MODULE_ID_PREFIX, "b">>, <<"b">>}, ds \in SeqsUpTo(PoolB, MaxDescs)}

\* a document "c" describing an object named as the module of document "a":
\* the identifiers "a" and "module-a" differ in the marker only
TreesC ==
    {Document(RefSource("c.rst"),
       <<Section(<<<<"c">>>>, <<<<MODULE_ID_PREFIX, "c">>>>,
                 <<Desc("data", <<"a">>, <<Summ("a of c")>>)>>)>>),
     Document(RefSource("c.rst"),
       <<Section(<<<<"c">>>>, <<<<MODULE_ID_PREFIX, "c">>>>,
                 <<Desc("data", <<"c.d">>, <<Summ("d of c")>>)>>)>>)}

\* a tutorial: the same shapes outside docs/reST/ref
TreesTut ==
    {Document(<<"docs", "reST", "tut", "intro.rst">>,
              <<Section(<<<<"intro">>>>, <<<<MODULE_ID_PREFIX, "intro">>>>,
                        <<Desc("function", <<"f">>, <<Summ("f of tut")>>)>>)>>)}

\* ref/key.rst as the pygame documentation has it: the module section with
\* its summary and the eleven functions, each with a summary line and its
\* signatures
KeyFunction(name, summary, sigs) ==
    Desc("function", <<name>>,
         <<Para(<<Summ(summary)>> \o [i \in 1..Len(sigs) |-> Sig(sigs[i])])>>)

KeyTree ==
    Document(RefSource("key.rst"),
      <<Section(<<<<"pygame.key">>>>, <<<<MODULE_ID_PREFIX, "pygame.key">>, <<"pygame-key">>>>,
          <<Other(<<>>, <<Text(<<"pygame.key">>)>>),
            Para(<<Summ("pygame module to work with the keyboard")>>),
            KeyFunction("pygame.key.get_focused",
                "true if the display is receiving keyboard input from the system",
                <<"get_focused() -> bool">>),
            KeyFunction("pygame.key.get_pressed", "get the state of all keyboard buttons",
                <<"get_pressed() -> bools">>),
            KeyFunction("pygame.key.get_mods", "determine which modifier keys are being held",
                <<"get_mods() -> int">>),
            KeyFunction("pygame.key.set_mods", "temporarily set which modifier keys are pressed",
                <<"set_mods(int) -> None">>),
            KeyFunction("pygame.key.set_repeat", "control how held keys are repeated",
                <<"set_repeat() -> None", "set_repeat(delay) -> None",
                  "set_repeat(delay, interval) -> None">>),
            KeyFunction("pygame.key.get_repeat", "see how held keys are repeated",
                <<"get_repeat() -> (delay, interval)">>),
            KeyFunction("pygame.key.name", "get the name of a key identifier",
                <<"name(key, use_compat=True) -> str">>),
            KeyFunction("pygame.key.key_code", "get the key identifier from a key name",
                <<"key_code(name=string) -> int">>),
            KeyFunction("pygame.key.start_text_input", "start handling Unicode text input events",
                <<"start_text_input() -> None">>),
            KeyFunction("pygame.key.stop_text_input", "stop handling Unicode text input events",
                <<"stop_text_input() -> None">>),
            KeyFunction("pygame.key.set_text_input_rect",
                "controls the position of the candidate list",
                <<"set_text_input_rect(Rect) -> None">>)>>)>>)

\* the inline nodes a generated description is made of: summary lines,
\* signatures, a node of both classes, a signature of two children, a
\* signature around a summary line, a node of neither class, and a
\* signature without children
InlinePool ==
    {Summ("s1"), Summ("s2"), Sig("g1"), Sig("g2"),
     Inline({"summaryline", "signature"}, <<Text(<<"b1">>)>>),
     Inline({"signature"}, <<Text(<<"h1">>), Text(<<"h2">>)>>),
     Inline({"signature"}, <<Summ("n1")>>),
     Inline({}, <<Text(<<"p1">>)>>),
     Inline({"signature"}, <<>>)}

\* one description holding every sequence of inline nodes
TreesInline ==
    {Document(RefSource("key.rst"),
       <<Section(<<<<"w">>>>, <<<<MODULE_ID_PREFIX, "w">>>>,
                 <<Desc("function", <<"w.f">>, c)>>)>>) :
        c \in SeqsUpTo(InlinePool, MaxInl)}

\* the values of desctype: the recognized ones, "module", a directive of
\* another vocabulary, and none
Kinds ==
    {"data", "function", "exception", "class", "attribute", "method",
     "staticmethod", "classmethod", "module", "describe", NoAttr}

\* a description of every kind around a description of some kinds, in a
\* module section and in a section without the marker
TreesKinds ==
    {Document(RefSource("key.rst"),
       <<Section(<<<<"w">>>>, <<id>>,
           <<Sig("g0"),
             Desc(outer, <<"w.C">>,
                  <<Summ("s1"), Sig("g1"),
                    Desc(inner, <<"w.C.m">>, <<Summ("s2"), Sig("g2")>>),
                    Sig("g3")>>),
             Desc("function", <<"w.f">>, <<Sig("g4")>>)>>)>>) :
        id \in {<<MODULE_ID_PREFIX, "w">>, <<"w">>},
        outer \in Kinds,
        inner \in {"method", "module", "describe"}}

\* a subsection with and without names and identifiers
TreesSections ==
    {Document(RefSource("key.rst"),
       <<Section(<<<<"w">>>>, <<<<MODULE_ID_PREFIX, "w">>>>,
           <<Summ("s0"),
             Section(names, ids, kids),
             Desc("function", <<"w.f">>, <<Sig("g4")>>)>>)>>) :
        names \in {<<>>, <<<<"sub">>>>},
        ids \in {<<>>, <<<<"sub">>>>, <<<<MODULE_ID_PREFIX, "sub">>>>},
        kids \in {<<>>,
                  <<Summ("s1")>>,
                  <<Summ("s1"), Sig("g1"),
                    Desc("function", <<"w.g">>, <<Summ("s2")>>),
                    Desc("data", <<"w.d">>, <<Summ("s3")>>)>>}}

\* nodes the handlers were not written for, and sources outside docs/reST/ref
TreesOdd ==
    {Document(RefSource("key.rst"), <<Desc("function", <<"w.f">>, <<Sig("g1")>>)>>),
     Document(RefSource("key.rst"), <<Para(<<Summ("s1")>>)>>),
     Document(RefSource("key.rst"),
       <<Section(<<<<"w">>>>, <<<<MODULE_ID_PREFIX, "w">>>>,
                 <<[Node("desc") EXCEPT !.desctype = "function"]>>)>>),
     Document(RefSource("key.rst"),
       <<Section(<<<<"w">>>>, <<<<MODULE_ID_PREFIX, "w">>>>,
                 <<[Node("desc") EXCEPT !.desctype = "function",
                                        !.kids = <<Other(<<>>, <<>>)>>]>>)>>),
     Document(RefSource("key.rst"),
       <<Section(<<<<"w">>>>, <<<<MODULE_ID_PREFIX, "w">>>>,
                 <<Desc("class", <<"w.f">>, <<Desc("method", <<"w.f">>, <<Sig("g1")>>)>>)>>)>>),
     Document(RefSource(""),
       <<Section(<<<<"w">>>>, <<<<MODULE_ID_PREFIX, "w">>>>, <<Summ("s1")>>)>>),
     Document(<<"docs", "reST", "c_api", "key.rst">>,
       <<Section(<<<<"w">>>>, <<<<MODULE_ID_PREFIX, "w">>>>, <<Summ("s1")>>)>>),
     Document(<<"docs", "src", "ref", "key.rst">>,
       <<Section(<<<<"w">>>>, <<<<MODULE_ID_PREFIX, "w">>>>, <<Summ("s1")>>)>>),
     Document(<<"reST", "ref", "key.rst">>,
       <<Section(<<<<"w">>>>, <<<<MODULE_ID_PREFIX, "w">>>>, <<Summ("s1")>>)>>)}

\* identifiers that differ in the marker only: a module section around a
\* description named as the module, and two descriptions of one section;
\* and a section without the marker around a class whose method has it
TreesMarker ==
    {Document(RefSource("key.rst"),
       <<Section(<<<<"w">>>>, <<<<MODULE_ID_PREFIX, "w">>>>,
                 <<Desc("function", <<"w">>, <<Summ("s1")>>)>>)>>),
     Document(RefSource("key.rst"),
       <<Section(<<<<"w">>>>, <<<<MODULE_ID_PREFIX, "w">>>>,
                 <<Desc("class", <<MODULE_ID_PREFIX, "v">>, <<Summ("s1")>>),
                   Desc("function", <<"v">>, <<Summ("s2")>>)>>)>>),
     Document(RefSource("key.rst"),
       <<Section(<<<<"w">>>>, <<<<"w">>>>,
                 <<Desc("class", <<"w.C">>,
                        <<Summ("s1"), Desc("method", <<MODULE_ID_PREFIX, "m">>, <<Summ("s2")>>)>>),
                   Desc("function", <<"w.f">>, <<Summ("s3")>>)>>)>>)}

\* a summary line of two children, alone and after a summary line of one
TreesSummary ==
    {Document(RefSource("key.rst"),
       <<Section(<<<<"w">>>>, <<<<MODULE_ID_PREFIX, "w">>>>,
                 <<Desc("function", <<"w.f">>,
                        c \o <<Inline({"summaryline"}, <<Text(<<"t1">>), Text(<<"t2">>)>>)>>)>>)>>) :
        c \in {<<>>, <<Summ("s1")>>}}

TreesKey ==
    {KeyTree} \cup TreesInline \cup TreesKinds \cup TreesSections \cup TreesOdd
        \cup TreesMarker \cup TreesSummary

TreesOf(d) ==
    CASE d = "a" -> TreesA
      [] d = "b" -> TreesB
      [] d = "c" -> TreesC
      [] d = "tut" -> TreesTut
      [] d = "key" -> TreesKey
      [] OTHER -> {}

Docs == {"a", "b", "tut", "key", "c"}

---------------------------------------------------------------------------
(* The build.                                                              *)

NoWalk == [status |-> "idle", doc |-> NoAttr, path |-> <<>>, phase |-> "visit", error |-> ""]

NoHdr == [doc |-> NoAttr, tours |-> <<>>, items |-> <<>>, err |-> "", written |-> FALSE]

InitCommon ==
    /\ has_tbl = FALSE
    /\ pyg_descinfo_tbl = EmptyTbl
    /\ doctree = [d \in Docs |-> NoTree]
    /\ to_read = {}
    /\ walk = NoWalk
    /\ summary_stack = <<>>
    /\ sig_stack = <<>>
    /\ desc_stack = <<>>
    /\ hdr = NoHdr
    /\ purged = [d \in Docs |-> {}]
    /\ alone = EmptyTbl

\* a project of two reference documents that share an identifier, and a tutorial
Init == corpus = {"a", "b", "tut"} /\ InitCommon

\* a project of the one reference document ref/key.rst, parsed to any tree of TreesKey
InitWalk == corpus = {"key"} /\ InitCommon

Idle == walk.status \in {"idle", "done"}

Running == walk.status = "running"

Tree == doctree[walk.doc]

Cur == NodeAt(Tree, walk.path)

Visiting(kinds) == Running /\ walk.phase = "visit" /\ Cur.kind \in kinds

Departing(kinds) == Running /\ walk.phase = "depart" /\ Cur.kind \in kinds

\* the walk moves on to pos
Goto(pos) ==
    IF pos.done THEN [walk EXCEPT !.status = "done"]
    ELSE [walk EXCEPT !.path = pos.path, !.phase = pos.phase]

\* the handler raised e: the exception leaves walkabout and the build ends
Crash(e) == [walk EXCEPT !.status = "crashed", !.error = e]

\* env-purge-doc
Purge(d) ==
    /\ Idle
    /\ pyg_descinfo_tbl' = prep_document_info(has_tbl, pyg_descinfo_tbl, d).tbl
    /\ purged' = [purged EXCEPT ![d] = DOMAIN pyg_descinfo_tbl \ DOMAIN pyg_descinfo_tbl']
    /\ to_read' = to_read \cup {d}
    /\ doctree' = [doctree EXCEPT ![d] = NoTree]
    /\ walk' = IF prep_document_info(has_tbl, pyg_descinfo_tbl, d).err # ""
               THEN [NoWalk EXCEPT !.status = "crashed",
                                   !.error = prep_document_info(has_tbl, pyg_descinfo_tbl, d).err]
               ELSE NoWalk
    /\ hdr' = NoHdr
    /\ alone' = EmptyTbl
    /\ UNCHANGED <<corpus, has_tbl, summary_stack, sig_stack, desc_stack>>

\* doctree-read: collect_document_info builds the visitor (CollectInfo.__init__)
\* and starts the walk at the document node
Index(d, tree) ==
    /\ Idle
    /\ d \in to_read
    /\ to_read' = to_read \ {d}
    /\ doctree' = [doctree EXCEPT ![d] = tree]
    /\ summary_stack' = <<>>
    /\ sig_stack' = <<>>
    /\ desc_stack' = <<>>
    /\ has_tbl' = TRUE
    /\ pyg_descinfo_tbl' = IF has_tbl THEN pyg_descinfo_tbl ELSE EmptyTbl
    /\ walk' = [status |-> "running", doc |-> d, path |-> <<>>, phase |-> "visit", error |-> ""]
    /\ hdr' = NoHdr
    /\ alone' = EmptyTbl
    /\ UNCHANGED <<corpus, purged>>

visit_document ==
    /\ Visiting({"document"})
    /\ walk' = Goto(IF eligible(Cur.source) THEN Enter(Tree, walk.path)
                    ELSE After(Tree, walk.path))
    /\ UNCHANGED <<corpus, has_tbl, pyg_descinfo_tbl, doctree, to_read,
                   summary_stack, sig_stack, desc_stack, hdr, purged, alone>>

\* CollectInfo._push
push ==
    /\ summary_stack' = Append(summary_stack, <<>>)
    /\ sig_stack' = Append(sig_stack, <<>>)
    /\ desc_stack' = Append(desc_stack, <<>>)

\* visit_section's test with the identifiers taken for the names
no_names_by_ids(node) == node.ids = <<>>

\* visit_section: if not node["names"]
no_names(node) == node.names = <<>>

visit_section ==
    /\ Visiting({"section"})
    /\ IF no_names(Cur)
       THEN /\ walk' = Goto(After(Tree, walk.path))
            /\ UNCHANGED <<summary_stack, sig_stack, desc_stack>>
       ELSE /\ walk' = Goto(Enter(Tree, walk.path))
            /\ push
    /\ UNCHANGED <<corpus, has_tbl, pyg_descinfo_tbl, doctree, to_read, hdr, purged, alone>>

\* visit_desc: node.get("desctype", "") not in self.desctypes
unrecognized(node) == get_desctype(node, "") \notin desctypes

visit_desc ==
    /\ Visiting({"desc"})
    /\ IF unrecognized(Cur)
       THEN /\ walk' = Goto(After(Tree, walk.path))
            /\ UNCHANGED <<summary_stack, sig_stack, desc_stack>>
       ELSE /\ walk' = Goto(Enter(Tree, walk.path))
            /\ push
    /\ UNCHANGED <<corpus, has_tbl, pyg_descinfo_tbl, doctree, to_read, hdr, purged, alone>>

\* depart_section taking the last description of the frame for the first
record_section_last_child(tree, path, summary, sigs, child_descs, docname, tbl) ==
    LET node == NodeAt(tree, path)
    IN  IF node.kids = <<>> THEN [err |-> "", tbl |-> tbl]
        ELSE IF node.ids = <<>> THEN [err |-> "IndexError", tbl |-> tbl]
        ELSE IF startswith_module(node.ids[1])
             THEN add_descinfo(tree, path, summary, sigs, child_descs, docname, tbl)
        ELSE IF child_descs # <<>>
             THEN LET last == get_descinfo(tree, child_descs[Len(child_descs)], tbl)
                  IN  IF last.err # "" THEN [err |-> last.err, tbl |-> tbl]
                      ELSE add_descinfo_entry(tree, path, last.val, tbl)
        ELSE [err |-> "", tbl |-> tbl]

\* what depart_section does with the popped frame; result [err, tbl]
record_section(tree, path, summary, sigs, child_descs, docname, tbl) ==
    LET node == NodeAt(tree, path)
    IN  IF node.kids = <<>> THEN [err |-> "", tbl |-> tbl]
        ELSE IF node.ids = <<>> THEN [err |-> "IndexError", tbl |-> tbl]
        ELSE IF startswith_module(node.ids[1])
             THEN add_descinfo(tree, path, summary, sigs, child_descs, docname, tbl)
        ELSE IF child_descs # <<>>
             THEN LET first == get_descinfo(tree, child_descs[1], tbl)
                  IN  IF first.err # "" THEN [err |-> first.err, tbl |-> tbl]
                      ELSE add_descinfo_entry(tree, path, first.val, tbl)
        ELSE [err |-> "", tbl |-> tbl]

\* CollectInfo._pop on the three stacks
pop ==
    /\ summary_stack' = Front(summary_stack)
    /\ sig_stack' = Front(sig_stack)
    /\ desc_stack' = Front(desc_stack)

depart_section ==
    /\ Departing({"section"})
    /\ IF summary_stack = <<>>
       THEN /\ walk' = Crash("IndexError")
            /\ UNCHANGED <<pyg_descinfo_tbl, summary_stack, sig_stack, desc_stack, alone>>
       ELSE LET n == Len(summary_stack)
                r == record_section(Tree, walk.path, summary_stack[n], sig_stack[n],
                                    desc_stack[n], walk.doc, pyg_descinfo_tbl)
            IN  /\ pop
                /\ pyg_descinfo_tbl' = r.tbl
                /\ alone' = record_section(Tree, walk.path, summary_stack[n], sig_stack[n],
                                           desc_stack[n], walk.doc, alone).tbl
                /\ walk' = IF r.err # "" THEN Crash(r.err) ELSE Goto(After(Tree, walk.path))
    /\ UNCHANGED <<corpus, has_tbl, doctree, to_read, hdr, purged>>

\* CollectInfo._add_desc on the stack left by the pop; result [err, stack]
add_desc(stack, path) ==
    IF stack = <<>> THEN [err |-> "IndexError", stack |-> stack]
    ELSE [err |-> "", stack |-> [stack EXCEPT ![Len(stack)] = Append(@, path)]]

depart_desc ==
    /\ Departing({"desc"})
    /\ IF summary_stack = <<>>
       THEN /\ walk' = Crash("IndexError")
            /\ UNCHANGED <<pyg_descinfo_tbl, summary_stack, sig_stack, desc_stack, alone>>
       ELSE LET n == Len(summary_stack)
                r == add_descinfo(Tree, walk.path, summary_stack[n], sig_stack[n],
                                  desc_stack[n], walk.doc, pyg_descinfo_tbl)
                a == add_desc(Front(desc_stack), walk.path)
            IN  /\ summary_stack' = Front(summary_stack)
                /\ sig_stack' = Front(sig_stack)
                /\ pyg_descinfo_tbl' = r.tbl
                /\ alone' = add_descinfo(Tree, walk.path, summary_stack[n], sig_stack[n],
                                         desc_stack[n], walk.doc, alone).tbl
                /\ desc_stack' = IF r.err # "" THEN Front(desc_stack) ELSE a.stack
                /\ walk' = IF r.err # "" THEN Crash(r.err)
                           ELSE IF a.err # "" THEN Crash(a.err)
                           ELSE Goto(After(Tree, walk.path))
    /\ UNCHANGED <<corpus, has_tbl, doctree, to_read, hdr, purged>>

\* visit_inline's if / elif on the node's classes
classify(node) ==
    IF "summaryline" \in node.classes THEN "summary"
    ELSE IF "signature" \in node.classes THEN "signature"
    ELSE "none"

\* _add_summary keeping the summary the frame has
add_summary_keep_first(stack, node) ==
    IF node.kids = <<>> \/ stack = <<>> THEN [err |-> "IndexError", stack |-> stack]
    ELSE IF stack[Len(stack)] # <<>> THEN [err |-> "", stack |-> stack]
    ELSE [err |-> "", stack |-> [stack EXCEPT ![Len(stack)] = astext(node.kids[1])]]

\* CollectInfo._add_summary; result [err, stack]
add_summary(stack, node) ==
    IF node.kids = <<>> \/ stack = <<>> THEN [err |-> "IndexError", stack |-> stack]
    ELSE [err |-> "", stack |-> [stack EXCEPT ![Len(stack)] = astext(node.kids[1])]]

\* _add_sig taking the text of the node where it takes that of its first child
add_sig_node_text(stack, node) ==
    IF stack = <<>> \/ node.kids = <<>> THEN [err |-> "IndexError", stack |-> stack]
    ELSE [err |-> "", stack |-> [stack EXCEPT ![Len(stack)] = Append(@, astext(node))]]

\* CollectInfo._add_sig; result [err, stack]
add_sig(stack, node) ==
    IF stack = <<>> \/ node.kids = <<>> THEN [err |-> "IndexError", stack |-> stack]
    ELSE [err |-> "", stack |-> [stack EXCEPT ![Len(stack)] = Append(@, astext(node.kids[1]))]]

\* visit_inline ending with SkipNode where it ends with SkipDeparture
after_inline_skip_node(tree, path) == After(tree, path)

\* raise SkipDeparture: walkabout goes on with the children of the node and
\* does not dispatch its departure
after_inline(tree, path) == Enter(tree, path)

visit_inline ==
    /\ Visiting({"inline"})
    /\ LET what == classify(Cur)
           s == IF what = "summary" THEN add_summary(summary_stack, Cur)
                ELSE [err |-> "", stack |-> summary_stack]
           g == IF what = "signature" THEN add_sig(sig_stack, Cur)
                ELSE [err |-> "", stack |-> sig_stack]
       IN  /\ summary_stack' = s.stack
           /\ sig_stack' = g.stack
           /\ walk' = IF s.err # "" THEN Crash(s.err)
                      ELSE IF g.err # "" THEN Crash(g.err)
                      ELSE Goto(after_inline(Tree, walk.path))
    /\ UNCHANGED <<corpus, has_tbl, pyg_descinfo_tbl, doctree, to_read, desc_stack,
                   hdr, purged, alone>>

\* every other node type
unknown_visit ==
    /\ Visiting({"other", "text"})
    /\ walk' = Goto(Enter(Tree, walk.path))
    /\ UNCHANGED <<corpus, has_tbl, pyg_descinfo_tbl, doctree, to_read,
                   summary_stack, sig_stack, desc_stack, hdr, purged, alone>>

unknown_departure ==
    /\ Departing({"document", "other", "text"})
    /\ walk' = Goto(After(Tree, walk.path))
    /\ UNCHANGED <<corpus, has_tbl, pyg_descinfo_tbl, doctree, to_read,
                   summary_stack, sig_stack, desc_stack, hdr, purged, alone>>

\* html-page-context: writer tours every section of the page; an exception
\* of a tour ends the build
writer(d) ==
    /\ Idle
    /\ d \notin to_read
    /\ doctree[d] # NoTree
    /\ hdr' = hdr_of(d, tour_sections(doctree[d], 1, pyg_descinfo_tbl, <<>>))
    /\ walk' = IF hdr'.err # "" THEN [NoWalk EXCEPT !.status = "crashed", !.error = hdr'.err]
               ELSE NoWalk
    /\ alone' = EmptyTbl
    /\ UNCHANGED <<corpus, has_tbl, pyg_descinfo_tbl, doctree, to_read,
                   summary_stack, sig_stack, desc_stack, purged>>

Next ==
    \/ \E d \in corpus : Purge(d)
    \/ \E d \in corpus : \E tree \in TreesOf(d) : Index(d, tree)
    \/ visit_document
    \/ visit_section
    \/ depart_section
    \/ visit_desc
    \/ depart_desc
    \/ visit_inline
    \/ unknown_visit
    \/ unknown_departure
    \/ \E d \in corpus : writer(d)

Spec == Init /\ [][Next]_vars

SpecWalk == InitWalk /\ [][Next]_vars

\* a project of two reference documents whose identifiers are distinct
InitDistinct == corpus = {"a", "c"} /\ InitCommon

SpecDistinct == InitDistinct /\ [][Next]_vars

---------------------------------------------------------------------------
(* Properties.                                                             *)

\* the entries of the table that name docname as their document
EntriesOf(tbl, docname) ==
    [k \in {x \in DOMAIN tbl : tbl[x].docname = docname} |-> tbl[k]]

\* C1: when a document has been purged and indexed again, the entries of the
\* table that carry its docname are exactly the entries its latest tree
\* gives on an empty table: the same keys, and under each key the same
\* summary, signatures and children.
C1_ReindexDependsOnLatestTree ==
    walk.status = "done" => EntriesOf(pyg_descinfo_tbl, walk.doc) = alone

\* a second pass whose purge removed a key the new tree does not give and a
\* key it gives again
C1_Witness ==
    /\ walk.status = "done"
    /\ purged[walk.doc] \ DOMAIN alone # {}
    /\ purged[walk.doc] \cap DOMAIN alone # {}

\* C3: a tour that starts at a section whose key is not in the table (or
\* that has no identifier) hands over no entry and raises nothing.
C3_AbsentKeyFlattensToNothing ==
    \A i \in 1..Len(hdr.tours) :
        LET node == NodeAt(doctree[hdr.doc], hdr.tours[i].path)
        IN  (node.ids = <<>> \/ registry_key(node.ids[1]) \notin DOMAIN pyg_descinfo_tbl)
            => hdr.tours[i].items = <<>> /\ hdr.tours[i].err = ""

\* writer toured a section with an identifier that the non-empty table lacks
C3_Witness ==
    \E i \in 1..Len(hdr.tours) :
        LET node == NodeAt(doctree[hdr.doc], hdr.tours[i].path)
        IN  /\ node.ids # <<>>
            /\ registry_key(node.ids[1]) \notin DOMAIN pyg_descinfo_tbl
            /\ DOMAIN pyg_descinfo_tbl # {}
            /\ hdr.tours[i].items = <<>>

\* the number of calls a tour of the refids in todo makes
RECURSIVE TourSize(_, _, _)
TourSize(todo, tbl, n) ==
    IF todo = <<>> THEN n
    ELSE TourSize(tbl[Head(todo)].children \o Tail(todo), tbl, n + 1)

\* items is root, then for each child in the order of root.children the
\* child's entry followed at once by the whole tour of the child
IsPreorder(items, root, tbl) ==
    /\ Len(items) = 1 + TourSize(root.children, tbl, 0)
    /\ items[1] = root
    /\ \A i \in 1..Len(root.children) :
          LET from == 2 + TourSize(SubSeq(root.children, 1, i - 1), tbl, 0)
              size == TourSize(<<root.children[i]>>, tbl, 0)
          IN  /\ items[from] = tbl[root.children[i]]
              /\ SubSeq(items, from, from + size - 1) =
                    tour_descinfo_refid(calls(<<root.children[i]>>, 1), tbl, <<>>).items
    /\ (\A i \in 1..Len(root.children) : tbl[root.children[i]].children = <<>>)
          => /\ Len(items) = 1 + Len(root.children)
             /\ \A i \in 1..Len(root.children) : items[i + 1] = tbl[root.children[i]]

\* the tours of writer that started at a section whose key is in the table
ToursOfKnownSections ==
    {i \in 1..Len(hdr.tours) :
        LET node == NodeAt(doctree[hdr.doc], hdr.tours[i].path)
        IN  node.ids # <<>> /\ registry_key(node.ids[1]) \in DOMAIN pyg_descinfo_tbl}

\* C2: a tour from a section whose key is in the table hands over the
\* section's entry, then each child's entry in the order of the children
\* list, each followed at once by the child's own tour; a section with
\* eleven children and no grandchildren gives twelve entries.
C2_FlattenIsPreorder ==
    \A i \in ToursOfKnownSections :
        /\ hdr.tours[i].err = ""
        /\ IsPreorder(hdr.tours[i].items,
                      pyg_descinfo_tbl[registry_key(
                          NodeAt(doctree[hdr.doc], hdr.tours[i].path).ids[1])],
                      pyg_descinfo_tbl)

\* the same of the tours that raised nothing
FlattenIsPreorderUnlessRaised ==
    \A i \in ToursOfKnownSections :
        hdr.tours[i].err = "" =>
            IsPreorder(hdr.tours[i].items,
                       pyg_descinfo_tbl[registry_key(
                           NodeAt(doctree[hdr.doc], hdr.tours[i].path).ids[1])],
                       pyg_descinfo_tbl)

\* the tour of pygame.key: twelve entries, the module first
KeyTourIsTwelve ==
    \E i \in ToursOfKnownSections :
        /\ Len(hdr.tours[i].items) = 12
        /\ [j \in 1..12 |-> hdr.tours[i].items[j].fullname] =
            << <<"pygame.key">>, <<"pygame.key.get_focused">>, <<"pygame.key.get_pressed">>,
               <<"pygame.key.get_mods">>, <<"pygame.key.set_mods">>, <<"pygame.key.set_repeat">>,
               <<"pygame.key.get_repeat">>, <<"pygame.key.name">>, <<"pygame.key.key_code">>,
               <<"pygame.key.start_text_input">>, <<"pygame.key.stop_text_input">>,
               <<"pygame.key.set_text_input_rect">> >>

\* C4: between operations, every item of every children list is a key of
\* the table.
C4_ChildrenAreKeys ==
    Idle => \A k \in DOMAIN pyg_descinfo_tbl :
                \A i \in 1..Len(pyg_descinfo_tbl[k].children) :
                    pyg_descinfo_tbl[k].children[i] \in DOMAIN pyg_descinfo_tbl

\* C5: a purge leaves no entry of the document, and keeps every entry of
\* another document under its key, unchanged.
C5_PurgeRemovesExactly ==
    [][\A d \in corpus :
          Purge(d) =>
            /\ \A k \in DOMAIN pyg_descinfo_tbl' : pyg_descinfo_tbl'[k].docname # d
            /\ \A k \in DOMAIN pyg_descinfo_tbl :
                  pyg_descinfo_tbl[k].docname # d =>
                     /\ k \in DOMAIN pyg_descinfo_tbl'
                     /\ pyg_descinfo_tbl'[k] = pyg_descinfo_tbl[k]
            /\ DOMAIN pyg_descinfo_tbl' \subseteq DOMAIN pyg_descinfo_tbl]_vars

\* a purge has removed entries and left entries of another document
C5_Witness ==
    \E d \in to_read :
        /\ walk = NoWalk
        /\ purged[d] # {}
        /\ DOMAIN pyg_descinfo_tbl # {}

\* C6: a purge of a document without entries, the table existing or not,
\* changes neither the table nor its existence and raises nothing.
C6_PurgeOfNothingIsNoOp ==
    [][\A d \in corpus :
          (/\ Purge(d)
           /\ \/ ~has_tbl
              \/ \A k \in DOMAIN pyg_descinfo_tbl : pyg_descinfo_tbl[k].docname # d)
          => /\ pyg_descinfo_tbl' = pyg_descinfo_tbl
             /\ has_tbl' = has_tbl
             /\ walk'.status # "crashed"]_vars

\* a purge has been done before the table was first created
C6_Witness == ~has_tbl /\ to_read # {} /\ walk.status = "idle"


---------------------------------------------------------------------------
(* The walk of one document.                                               *)

\* the values of an entry's desctype field
Vocabulary ==
    {"module", "data", "function", "exception", "class", "attribute", "method",
     "staticmethod", "classmethod"}

\* the kinds of description node that are entered
Recognized == Vocabulary \ {"module"}

DescsOutside(tree, kinds) ==
    {p \in Paths(tree) : NodeAt(tree, p).kind = "desc" /\ NodeAt(tree, p).desctype \notin kinds}

UnnamedSections(tree) ==
    {p \in Paths(tree) : NodeAt(tree, p).kind = "section" /\ NodeAt(tree, p).names = <<>>}

\* the nodes at and below the nodes of roots
Under(tree, roots) == {q \in Paths(tree) : \E p \in roots : IsPrefix(p, q)}

\* the nodes the walk comes to
Live(tree) ==
    IF eligible(tree.source)
    THEN Paths(tree) \ Under(tree, DescsOutside(tree, Recognized) \cup UnnamedSections(tree))
    ELSE {}

HasRefid(tree, q) ==
    NodeAt(tree, q).kind \in {"desc", "section"} /\ get_refid(tree, q).err = ""

KeyAt(tree, q) == registry_key(get_refid(tree, q).val)

LiveKeys(tree) == {KeyAt(tree, q) : q \in {x \in Live(tree) : HasRefid(tree, x)}}

HasText(tree, q) == NodeAt(tree, q).kind = "inline" /\ NodeAt(tree, q).kids # <<>>

TextAt(tree, q) == astext(NodeAt(tree, q).kids[1])

LiveTexts(tree) == {TextAt(tree, q) : q \in {x \in Live(tree) : HasText(tree, x)}}

\* the walk has not gone below a node of roots nor departed one, no frame
\* lists a node at or below one, and what only such nodes carry (a key, an
\* identifier, a text) is in no entry and in no frame
NothingOf(tree, roots) ==
    /\ Running =>
          \A p \in roots :
              IsPrefix(p, walk.path) => walk.path = p /\ walk.phase = "visit"
    /\ \A i \in 1..Len(desc_stack) : \A j \in 1..Len(desc_stack[i]) :
          desc_stack[i][j] \notin Under(tree, roots)
    /\ \A q \in Under(tree, roots) :
          /\ (HasRefid(tree, q) /\ KeyAt(tree, q) \notin LiveKeys(tree))
                => /\ KeyAt(tree, q) \notin DOMAIN pyg_descinfo_tbl
                   /\ \A k \in DOMAIN pyg_descinfo_tbl :
                         \A i \in 1..Len(pyg_descinfo_tbl[k].children) :
                             registry_key(pyg_descinfo_tbl[k].children[i]) # KeyAt(tree, q)
          /\ (HasText(tree, q) /\ TextAt(tree, q) \notin LiveTexts(tree))
                => /\ \A k \in DOMAIN pyg_descinfo_tbl :
                         /\ pyg_descinfo_tbl[k].summary # TextAt(tree, q)
                         /\ \A i \in 1..Len(pyg_descinfo_tbl[k].signatures) :
                               pyg_descinfo_tbl[k].signatures[i] # TextAt(tree, q)
                   /\ \A i \in 1..Len(summary_stack) :
                         /\ summary_stack[i] # TextAt(tree, q)
                         /\ \A j \in 1..Len(sig_stack[i]) :
                               sig_stack[i][j] # TextAt(tree, q)

\* C7: a description node whose kind is not one of the entered kinds is
\* only ever visited: the walk does not go below it nor depart it, no frame
\* lists it or a node below it as a child, and its key, its identifier and
\* the texts of the summary lines and signatures below it are in no entry
\* and in no frame.
C7_UnrecognizedDescIsPruned ==
    walk.doc # NoAttr => NothingOf(Tree, DescsOutside(Tree, Recognized))

\* the walk of a document is over that has, in a section it entered, a
\* description of another vocabulary around a description and inline nodes
C7_Witness ==
    /\ walk.status = "done"
    /\ DOMAIN pyg_descinfo_tbl # {}
    /\ \E p \in DescsOutside(Tree, Vocabulary) :
          /\ Front(p) \in Live(Tree)
          /\ \E q \in Under(Tree, {p}) : q # p /\ HasRefid(Tree, q)
          /\ \E q \in Under(Tree, {p}) : HasText(Tree, q)

\* the descriptions and sections of tree other than p that have p's key
SameKey(tree, p) ==
    {q \in Paths(tree) \ {p} : HasRefid(tree, q) /\ KeyAt(tree, q) = KeyAt(tree, p)}

\* p is a description of one of kinds, below no unnamed section and below
\* no description outside kinds
DescsToRegister(tree, kinds) ==
    {p \in Paths(tree) \ Under(tree, UnnamedSections(tree)) :
        /\ NodeAt(tree, p).kind = "desc"
        /\ NodeAt(tree, p).desctype \in kinds
        /\ \A a \in DescsOutside(tree, kinds) : ~IsPrefix(a, p)}

\* C8 as stated: when an eligible document is indexed, every description
\* node of a kind in {module, data, function, exception, class, attribute,
\* method, staticmethod, classmethod} that is in no pruned subtree has an
\* entry under its key, with the node's kind as desctype.
C8_EveryVocabularyDescRegistered ==
    (walk.status = "done" /\ eligible(Tree.source)) =>
        \A p \in DescsToRegister(Tree, Vocabulary) :
            /\ HasRefid(Tree, p)
            /\ KeyAt(Tree, p) \in DOMAIN pyg_descinfo_tbl
            /\ pyg_descinfo_tbl[KeyAt(Tree, p)].desctype = NodeAt(Tree, p).desctype

\* C8, amended: when an eligible document is indexed, every description
\* node of a kind in {data, function, exception, class, attribute, method,
\* staticmethod, classmethod} that is in no pruned subtree, and whose key no
\* other description or section of the document has, has an entry under
\* its key, with the node's kind as desctype.
C8_EveryRecognizedDescRegistered ==
    (walk.status = "done" /\ eligible(Tree.source)) =>
        \A p \in DescsToRegister(Tree, Recognized) :
            SameKey(Tree, p) = {} =>
                /\ HasRefid(Tree, p)
                /\ KeyAt(Tree, p) \in DOMAIN pyg_descinfo_tbl
                /\ pyg_descinfo_tbl[KeyAt(Tree, p)].desctype = NodeAt(Tree, p).desctype

\* a static method and, inside it, a method are both registered
C8_Witness ==
    /\ walk.status = "done"
    /\ \E p, q \in DescsToRegister(Tree, Recognized) :
          /\ p # q /\ IsPrefix(p, q)
          /\ SameKey(Tree, p) = {} /\ SameKey(Tree, q) = {}
          /\ pyg_descinfo_tbl[KeyAt(Tree, p)].desctype = "staticmethod"
          /\ pyg_descinfo_tbl[KeyAt(Tree, q)].desctype = "method"

RECURSIVE SigNodes(_)
SigNodes(node) ==
    Concat([i \in 1..Len(node.kids) |->
              IF node.kids[i].kind = "inline"
              THEN (IF "signature" \in node.kids[i].classes THEN <<node.kids[i]>> ELSE <<>>)
                     \o SigNodes(node.kids[i])
              ELSE IF node.kids[i].kind \in {"desc", "section"} THEN <<>>
              ELSE SigNodes(node.kids[i])])

\* the departure of the node at the walk's position stores an entry
Registers ==
    /\ Departing({"desc", "section"})
    /\ Cur.kind = "section" =>
          Cur.kids # <<>> /\ Cur.ids # <<>> /\ startswith_module(Cur.ids[1])
    /\ get_refid(Tree, walk.path).err = ""
    /\ get_fullname(Cur).err = ""

\* C10 as stated: the entry a node's departure stores has as signatures
\* the texts of the inline nodes of class signature that were visited while
\* the node's frame was the innermost, in document order, one for each;
\* those inside a nested description are in the nested entry only.
C10_SignaturesAreNodeTexts ==
    [][Registers =>
         /\ KeyAt(Tree, walk.path) \in DOMAIN pyg_descinfo_tbl'
         /\ pyg_descinfo_tbl'[KeyAt(Tree, walk.path)].signatures =
               [i \in 1..Len(SigNodes(Cur)) |-> astext(SigNodes(Cur)[i])]
      ]_vars

\* the inline nodes of SigNodes that are not of class summaryline as well
SigOnlyNodes(node) ==
    SelectSeq(SigNodes(node), LAMBDA n : "summaryline" \notin n.classes)

\* C10, amended: the entry a node's departure stores has as signatures the
\* texts of the first children of the inline nodes of class signature and
\* not of class summaryline that were visited while the node's frame was the
\* innermost, in document order, one for each; those inside a nested
\* description are in the nested entry only.
C10_SignaturesAreFirstChildTexts ==
    [][Registers =>
         /\ KeyAt(Tree, walk.path) \in DOMAIN pyg_descinfo_tbl'
         /\ pyg_descinfo_tbl'[KeyAt(Tree, walk.path)].signatures =
               [i \in 1..Len(SigOnlyNodes(Cur)) |-> astext(SigOnlyNodes(Cur)[i].kids[1])]
      ]_vars

\* set_repeat is registered with its three signatures in their order
C10_Witness ==
    /\ <<"pygame.key.set_repeat">> \in DOMAIN pyg_descinfo_tbl
    /\ pyg_descinfo_tbl[<<"pygame.key.set_repeat">>].signatures =
          << <<"set_repeat() -> None">>, <<"set_repeat(delay) -> None">>,
             <<"set_repeat(delay, interval) -> None">> >>

\* the descriptions of an entered kind the walk comes to while the frame of
\* the node at path is the innermost, in document order
RECURSIVE FrameDescs(_, _)
FrameDescs(tree, path) ==
    Concat([i \in 1..Len(NodeAt(tree, path).kids) |->
              IF NodeAt(tree, Append(path, i)).kind = "desc"
              THEN (IF NodeAt(tree, Append(path, i)).desctype \in Recognized
                    THEN <<Append(path, i)>> ELSE <<>>)
              ELSE IF NodeAt(tree, Append(path, i)).kind = "section" THEN <<>>
              ELSE FrameDescs(tree, Append(path, i))])

\* the walk is leaving a section with children whose identifier has no marker
LeavingHeaderless ==
    /\ Departing({"section"})
    /\ Cur.kids # <<>>
    /\ Cur.ids # <<>>
    /\ ~startswith_module(Cur.ids[1])

\* C11: when a named section with children and an identifier without the
\* marker is left, and its frame holds a description, the table maps the
\* section's key to the entry that was under the key of the first
\* description of the frame (equal in every field) and is otherwise as it
\* was; when the frame holds no description the table is as it was.
C11_HeaderlessSectionTakesFirstChild ==
    [][LeavingHeaderless =>
         IF FrameDescs(Tree, walk.path) # <<>>
         THEN /\ KeyAt(Tree, FrameDescs(Tree, walk.path)[1]) \in DOMAIN pyg_descinfo_tbl
              /\ DOMAIN pyg_descinfo_tbl' = DOMAIN pyg_descinfo_tbl \cup {KeyAt(Tree, walk.path)}
              /\ \A k \in DOMAIN pyg_descinfo_tbl' :
                    pyg_descinfo_tbl'[k] =
                        IF k = KeyAt(Tree, walk.path)
                        THEN pyg_descinfo_tbl[KeyAt(Tree, FrameDescs(Tree, walk.path)[1])]
                        ELSE pyg_descinfo_tbl[k]
              /\ walk'.status # "crashed"
         ELSE pyg_descinfo_tbl' = pyg_descinfo_tbl
      ]_vars

\* a section without the marker around two descriptions has the entry of
\* the first, which is not the entry of the second
C11_Witness ==
    /\ walk.status = "done"
    /\ \E p \in Paths(Tree) :
          /\ NodeAt(Tree, p).kind = "section" /\ HasRefid(Tree, p)
          /\ ~startswith_module(NodeAt(Tree, p).ids[1])
          /\ Len(FrameDescs(Tree, p)) >= 2
          /\ KeyAt(Tree, p) \in DOMAIN pyg_descinfo_tbl
          /\ pyg_descinfo_tbl[KeyAt(Tree, p)] =
                pyg_descinfo_tbl[KeyAt(Tree, FrameDescs(Tree, p)[1])]
          /\ pyg_descinfo_tbl[KeyAt(Tree, p)] #
                pyg_descinfo_tbl[KeyAt(Tree, FrameDescs(Tree, p)[2])]

\* the nodes of the documents that have a tree, as <<document, path>>
CorpusNodes ==
    UNION {{<<d, p>> : p \in Paths(doctree[d])} : d \in {x \in Docs : doctree[x] # NoTree}}

\* the identifiers of a node (its ids attribute)
IdsOf(x) ==
    {NodeAt(doctree[x[1]], x[2]).ids[i] : i \in 1..Len(NodeAt(doctree[x[1]], x[2]).ids)}

\* no identifier is on two nodes of the corpus
DistinctIds ==
    \A x, y \in {z \in CorpusNodes : IdsOf(z) # {}} : x # y => IdsOf(x) \cap IdsOf(y) = {}

\* no two identifiers of the corpus differ in the marker only
DistinctKeys ==
    \A x, y \in {z \in CorpusNodes : IdsOf(z) # {}} :
        x # y => {registry_key(i) : i \in IdsOf(x)} \cap {registry_key(i) : i \in IdsOf(y)} = {}

\* the step stores an entry under the key of the node at the walk's position
Puts == Registers \/ (LeavingHeaderless /\ FrameDescs(Tree, walk.path) # <<>>)

\* C12: when the identifiers of the nodes of the corpus are pairwise
\* distinct, no two nodes are stored under one key: a step that stores an
\* entry stores it under a key the table does not have (the entries of the
\* document's earlier pass were purged), so it overwrites no entry of
\* another node.
C12_DistinctIdsGiveDistinctKeys ==
    [][(Puts /\ DistinctIds) => KeyAt(Tree, walk.path) \notin DOMAIN pyg_descinfo_tbl]_vars

\* the same when the identifiers stay distinct with the marker taken off
PutsNeverOverwriteUnderDistinctKeys ==
    [][(Puts /\ DistinctKeys) => KeyAt(Tree, walk.path) \notin DOMAIN pyg_descinfo_tbl]_vars

\* the nodes the walk comes to that should give an entry and cannot name it:
\* a description of an entered kind without a first child or whose first
\* child has no identifier, and a named section with children and no identifier
Malformed(tree) ==
    {p \in Live(tree) :
        \/ /\ NodeAt(tree, p).kind = "desc"
           /\ get_refid(tree, p).err # "" \/ get_fullname(NodeAt(tree, p)).err # ""
        \/ /\ NodeAt(tree, p).kind = "section"
           /\ NodeAt(tree, p).kids # <<>>
           /\ NodeAt(tree, p).ids = <<>>}

\* C13: a description of an entered kind or a named section that has no
\* identifier makes only its own entry unavailable: the walk does not end
\* with an exception at that node, and when the walk is over every
\* description of an entered kind that has an identifier, and a key of its
\* own, has its entry.
C13_MalformedNodeIsRecoverable ==
    walk.doc # NoAttr =>
        /\ walk.status = "crashed" => walk.path \notin Malformed(Tree)
        /\ (walk.status = "done" /\ Malformed(Tree) # {}) =>
              \A p \in DescsToRegister(Tree, Recognized) \ Malformed(Tree) :
                  SameKey(Tree, p) = {} => KeyAt(Tree, p) \in DOMAIN pyg_descinfo_tbl

\* a walk of a document with such a node is never over
NoWalkWithMalformedNodeEnds ==
    (walk.doc # NoAttr /\ Malformed(Tree) # {}) => walk.status # "done"

\* no identifier is on nodes of two documents
DistinctIdsAcrossDocs ==
    \A x, y \in {z \in CorpusNodes : IdsOf(z) # {}} :
        x[1] # y[1] => IdsOf(x) \cap IdsOf(y) = {}

\* no identifiers of two documents differ in the marker only
DistinctKeysAcrossDocs ==
    \A x, y \in {z \in CorpusNodes : IdsOf(z) # {}} :
        x[1] # y[1] =>
            {registry_key(i) : i \in IdsOf(x)} \cap {registry_key(i) : i \in IdsOf(y)} = {}

\* the step is the start or a step of the walk of a document
WalkStep == walk.status = "running" \/ walk'.status = "running"

\* the entries of other documents than the one walked stay as they are,
\* and the table stays when it exists
OthersKept ==
    /\ \A k \in DOMAIN pyg_descinfo_tbl :
          pyg_descinfo_tbl[k].docname # walk'.doc =>
              k \in DOMAIN pyg_descinfo_tbl' /\ pyg_descinfo_tbl'[k] = pyg_descinfo_tbl[k]
    /\ has_tbl => has_tbl'

\* C14: when no identifier is on nodes of two documents, no step of the
\* walk of a document D, its start and a step that raises included, removes
\* or changes an entry whose docname is not D, and the start keeps a table
\* that exists.
C14_WalkKeepsOtherDocuments ==
    [][(WalkStep /\ DistinctIdsAcrossDocs') => OthersKept]_vars

\* the same when the identifiers of two documents stay distinct with the
\* marker taken off
WalkKeepsOthersUnderDistinctKeys ==
    [][(WalkStep /\ DistinctKeysAcrossDocs') => OthersKept]_vars

\* C15: the entry a node's departure stores has as children the registry
\* keys of the descriptions of an entered kind that were left while the
\* node's frame was the innermost, each once and in document order; the
\* descriptions inside one of them or inside a named subsection are not
\* among them.
C15_ChildrenAreKeysOfFrameDescs ==
    [][Registers =>
         /\ KeyAt(Tree, walk.path) \in DOMAIN pyg_descinfo_tbl'
         /\ pyg_descinfo_tbl'[KeyAt(Tree, walk.path)].children =
               [i \in 1..Len(FrameDescs(Tree, walk.path)) |->
                   KeyAt(Tree, FrameDescs(Tree, walk.path)[i])]
      ]_vars

\* the same with the identifiers of the descriptions as they are, the
\* marker left on
ChildrenAreRefidsOfFrameDescs ==
    [][Registers =>
         /\ KeyAt(Tree, walk.path) \in DOMAIN pyg_descinfo_tbl'
         /\ pyg_descinfo_tbl'[KeyAt(Tree, walk.path)].children =
               [i \in 1..Len(FrameDescs(Tree, walk.path)) |->
                   get_refid(Tree, FrameDescs(Tree, walk.path)[i]).val]
      ]_vars

\* the inline nodes of class summaryline the walk comes to while node's
\* frame is the innermost, in document order
RECURSIVE SummNodes(_)
SummNodes(node) ==
    Concat([i \in 1..Len(node.kids) |->
              IF node.kids[i].kind = "inline"
              THEN (IF "summaryline" \in node.kids[i].classes THEN <<node.kids[i]>> ELSE <<>>)
                     \o SummNodes(node.kids[i])
              ELSE IF node.kids[i].kind \in {"desc", "section"} THEN <<>>
              ELSE SummNodes(node.kids[i])])

\* C16 as stated: the entry a node's departure stores has as summary the
\* text of the last inline node of class summaryline that was visited while
\* the node's frame was the innermost, and the empty string when there was
\* none; the summary lines inside a nested description are not counted.
C16_SummaryIsLastNodeText ==
    [][Registers =>
         /\ KeyAt(Tree, walk.path) \in DOMAIN pyg_descinfo_tbl'
         /\ pyg_descinfo_tbl'[KeyAt(Tree, walk.path)].summary =
               IF SummNodes(Cur) = <<>> THEN <<>>
               ELSE astext(SummNodes(Cur)[Len(SummNodes(Cur))])
      ]_vars

\* C16, amended: the entry a node's departure stores has as summary the
\* text of the first child of the last inline node of class summaryline that
\* was visited while the node's frame was the innermost, and the empty
\* string when there was none; the summary lines inside a nested
\* description are not counted.
C16_SummaryIsLastFirstChildText ==
    [][Registers =>
         /\ KeyAt(Tree, walk.path) \in DOMAIN pyg_descinfo_tbl'
         /\ pyg_descinfo_tbl'[KeyAt(Tree, walk.path)].summary =
               IF SummNodes(Cur) = <<>> THEN <<>>
               ELSE astext(SummNodes(Cur)[Len(SummNodes(Cur))].kids[1])
      ]_vars

\* a description with two summary lines of different texts is registered
\* with the text of the second
C16_Witness ==
    /\ walk.status = "done"
    /\ \E p \in DescsToRegister(Tree, Recognized) :
          /\ Len(SummNodes(NodeAt(Tree, p))) = 2
          /\ astext(SummNodes(NodeAt(Tree, p))[1]) # astext(SummNodes(NodeAt(Tree, p))[2])
          /\ KeyAt(Tree, p) \in DOMAIN pyg_descinfo_tbl
          /\ pyg_descinfo_tbl[KeyAt(Tree, p)].summary = astext(SummNodes(NodeAt(Tree, p))[2])

\* the walk is at a node below an inline node
InsideInline ==
    /\ Running
    /\ \E n \in 0..(Len(walk.path) - 1) : NodeAt(Tree, SubSeq(walk.path, 1, n)).kind = "inline"

\* C17 as stated: once an inline node is classified the walk comes to no
\* node below it, so no step at a node below an inline node changes the
\* summary or the signatures of a frame.
C17_InlineSubtreeIsNotVisited ==
    [][/\ ~InsideInline'
       /\ InsideInline => UNCHANGED <<summary_stack, sig_stack>>]_vars

\* C17, amended: once an inline node is classified its departure is not
\* dispatched, and the walk goes on with its children: the visit of an
\* inline node that has children is followed by the visit of its first
\* child, and an inline node below another inline node sets the summary of
\* the innermost frame when it is of class summaryline and else adds a
\* signature to it when it is of class signature.
C17_InlineChildrenAreVisited ==
    [][/\ ~(Running' /\ walk'.phase = "depart" /\ NodeAt(Tree', walk'.path).kind = "inline")
       /\ (Visiting({"inline"}) /\ walk'.status # "crashed") =>
             /\ Cur.kids # <<>> =>
                   /\ walk'.status = "running" /\ walk'.phase = "visit"
                   /\ walk'.path = Append(walk.path, 1)
             /\ (InsideInline /\ "summaryline" \in Cur.classes) =>
                   /\ summary_stack'[Len(summary_stack)] = astext(Cur.kids[1])
                   /\ sig_stack' = sig_stack
             /\ (InsideInline /\ "summaryline" \notin Cur.classes /\ "signature" \in Cur.classes) =>
                   /\ sig_stack'[Len(sig_stack)] =
                         Append(sig_stack[Len(sig_stack)], astext(Cur.kids[1]))
                   /\ summary_stack' = summary_stack
      ]_vars

\* an entry has the summary that only a summary line below a signature carries
C17_Witness ==
    /\ walk.status = "done"
    /\ \E p \in Paths(Tree) :
          /\ HasText(Tree, p)
          /\ "summaryline" \in NodeAt(Tree, p).classes
          /\ \E n \in 0..(Len(p) - 1) : NodeAt(Tree, SubSeq(p, 1, n)).kind = "inline"
          /\ \A q \in Paths(Tree) \ {p} :
                (HasText(Tree, q) /\ "summaryline" \in NodeAt(Tree, q).classes)
                    => TextAt(Tree, q) # TextAt(Tree, p)
          /\ \E k \in DOMAIN pyg_descinfo_tbl : pyg_descinfo_tbl[k].summary = TextAt(Tree, p)

\* a node that opens a frame: a named section, a description of an entered kind
OpensFrame(node) ==
    \/ node.kind = "section" /\ node.names # <<>>
    \/ node.kind = "desc" /\ node.desctype \in Recognized

\* the number of frames open at the walk's position: the nodes above it
\* that open one, and the node itself once its children are done
OpenFrames ==
    Cardinality({n \in 0..(Len(walk.path) - 1) :
                    OpensFrame(NodeAt(Tree, SubSeq(walk.path, 1, n)))})
      + (IF walk.phase = "depart" /\ OpensFrame(Cur) THEN 1 ELSE 0)

\* the three stacks have the depth of the open frames, and none when the
\* walk is over
StacksMatchOpenFrames ==
    /\ Len(summary_stack) = Len(sig_stack) /\ Len(sig_stack) = Len(desc_stack)
    /\ Running => Len(summary_stack) = OpenFrames
    /\ walk.status = "done" => summary_stack = <<>>

\* the handler about to run reads, writes or appends to the top of an empty
\* stack: a pop, the append of a left description to the frame around it,
\* the write of a summary line, the append of a signature
EmptyStackAccess ==
    \/ Departing({"section", "desc"}) /\ summary_stack = <<>>
    \/ /\ Departing({"desc"})
       /\ get_refid(Tree, walk.path).err = "" /\ get_fullname(Cur).err = ""
       /\ Len(desc_stack) < 2
    \/ /\ Visiting({"inline"})
       /\ "summaryline" \in Cur.classes /\ Cur.kids # <<>>
       /\ summary_stack = <<>>
    \/ /\ Visiting({"inline"})
       /\ "summaryline" \notin Cur.classes /\ "signature" \in Cur.classes
       /\ sig_stack = <<>>

\* C18: during the walk of an eligible document the three stacks have the
\* same depth, the number of named sections and entered descriptions that
\* are open; no handler reads, writes or appends to the top of an empty
\* stack; and the stacks are empty when the walk is over.
C18_StacksMatchFramesAndAreNeverEmptyOnAccess ==
    (walk.doc # NoAttr /\ walk.status # "crashed" /\ eligible(Tree.source)) =>
        StacksMatchOpenFrames /\ ~EmptyStackAccess

\* the depths alone
StacksMatchOpenFramesWhileWalking ==
    (walk.doc # NoAttr /\ walk.status # "crashed") => StacksMatchOpenFrames

\* the keys a tour goes to from the entries under the keys of S
ChildKeys(tbl, S) ==
    {c \in DOMAIN tbl : \E k \in S : \E i \in 1..Len(tbl[k].children) : tbl[k].children[i] = c}

\* the keys a tour comes to in n steps or fewer after those of S
RECURSIVE ReachedFrom(_, _, _)
ReachedFrom(tbl, S, n) ==
    IF n = 0 THEN S ELSE ReachedFrom(tbl, S \cup ChildKeys(tbl, S), n - 1)

\* following the children lists from a key never comes back to the key
Acyclic(tbl) ==
    \A k \in DOMAIN tbl :
        k \notin ReachedFrom(tbl, ChildKeys(tbl, {k}), Cardinality(DOMAIN tbl))

\* C19: in every state of the table that purges and walks of documents
\* with pairwise distinct identifiers lead to, following the children lists
\* from a key never comes back to a key on the way, and no tour of the
\* writer fails to end.
C19_ChildrenAreAcyclic ==
    (Idle /\ DistinctIds) =>
        /\ Acyclic(pyg_descinfo_tbl)
        /\ \A i \in 1..Len(hdr.tours) : hdr.tours[i].err # "RecursionError"

\* the same when the identifiers stay distinct with the marker taken off
AcyclicUnderDistinctKeys ==
    (walk.status # "crashed" /\ DistinctKeys) =>
        /\ Acyclic(pyg_descinfo_tbl)
        /\ \A i \in 1..Len(hdr.tours) : hdr.tours[i].err # "RecursionError"

\* the tours of writer that started at a named section with children whose
\* identifier has no marker and whose frame holds a description
ToursOfHeaderlessSections ==
    {i \in 1..Len(hdr.tours) :
        /\ NodeAt(doctree[hdr.doc], hdr.tours[i].path).names # <<>>
        /\ NodeAt(doctree[hdr.doc], hdr.tours[i].path).kids # <<>>
        /\ NodeAt(doctree[hdr.doc], hdr.tours[i].path).ids # <<>>
        /\ ~startswith_module(NodeAt(doctree[hdr.doc], hdr.tours[i].path).ids[1])
        /\ FrameDescs(doctree[hdr.doc], hdr.tours[i].path) # <<>>}

\* items is the entry under the section's key, which is that of the first
\* description of the section's frame, and then that description's descendants; no item has the section's name, and
\* none is the entry of a later description of the frame
IsTourOfFirstChild(items, tree, path, tbl) ==
    /\ KeyAt(tree, path) \in DOMAIN tbl
    /\ tbl[KeyAt(tree, path)].refid = get_refid(tree, FrameDescs(tree, path)[1]).val
    /\ tbl[KeyAt(tree, path)].fullname =
          get_fullname(NodeAt(tree, FrameDescs(tree, path)[1])).val
    /\ IsPreorder(items, tbl[KeyAt(tree, path)], tbl)
    /\ \A j \in 1..Len(items) :
          /\ items[j].fullname # NodeAt(tree, path).names[1]
          /\ \A n \in 2..Len(FrameDescs(tree, path)) :
                items[j].refid # get_refid(tree, FrameDescs(tree, path)[n]).val

\* C20: a tour from a section without the marker whose frame holds the
\* descriptions A, B, ... hands over A's entry, then A's descendants, and
\* nothing else: no entry with the section's name, none for B or a later one.
C20_HeaderlessTourIsFirstChildTour ==
    \A i \in ToursOfHeaderlessSections :
        /\ hdr.tours[i].err = ""
        /\ IsTourOfFirstChild(hdr.tours[i].items, doctree[hdr.doc], hdr.tours[i].path,
                              pyg_descinfo_tbl)

\* the same of the tours that raised nothing, when the identifiers stay
\* distinct with the marker taken off
HeaderlessTourIsFirstChildTourUnlessRaised ==
    \A i \in ToursOfHeaderlessSections :
        (hdr.tours[i].err = "" /\ DistinctKeys) =>
            IsTourOfFirstChild(hdr.tours[i].items, doctree[hdr.doc], hdr.tours[i].path,
                               pyg_descinfo_tbl)

\* a tour from a section around a class with a method and a function gave
\* the class and the method
HeaderlessTourOfTwo ==
    \E i \in ToursOfHeaderlessSections :
        /\ Len(FrameDescs(doctree[hdr.doc], hdr.tours[i].path)) = 2
        /\ Len(hdr.tours[i].items) = 2
        /\ hdr.tours[i].err = ""

====
